---- MODULE Spec2Model ----
(***************************************************************************)
(* A model of the DocQuery retrieval pipeline: text extraction with OCR    *)
(* fallback (src/src/document_processor.py), batch ingestion and index     *)
(* construction (src/src/vector_store.py), source formatting               *)
(* (src/src/retrieval_chain.py) and the session handlers (src/src/app.py). *)
(*                                                                         *)
(* Text is a sequence of code points (naturals), so that strip, lower,     *)
(* split, join, sort and decode are computed as Python computes them.      *)
(***************************************************************************)
EXTENDS Integers, Sequences, FiniteSets, TLC

VARIABLES
    pc,                  \* a function under study: "input" before it ran, "done" after;
                         \* the session: "idle" between handlers, "ran" after one
    inp,                 \* the arguments of the function or handler that ran last
    out,                 \* what it returned and did
    vector_db,           \* st.session_state.vector_db
    uploaded_files_list, \* st.session_state.uploaded_files_list
    chat_history,        \* st.session_state.chat_history
    processed,           \* st.session_state.processed
    num_chunks,          \* st.session_state.num_chunks
    ocr_reader,          \* 'ocr_reader' in st.session_state
    discarded            \* history: the file names of the chunks of the index that
                         \* Clear All removed last

vars == <<pc, inp, out, vector_db, uploaded_files_list, chat_history, processed, num_chunks, ocr_reader,
          discarded>>

session == <<vector_db, uploaded_files_list, chat_history, processed, num_chunks>>

----------------------------------------------------------------------------
(* Bounds of the model *)

\* longest list of retrieved chunks handed to _format_sources
MaxSrcDocs == 3

\* most pages of a PDF
MaxPdfPages == 2

\* largest max_pages handed to an extraction
MaxCap == 2

\* most paragraphs of a DOCX
MaxParas == 2

\* most bytes of a TXT
MaxBytes == 3

\* most files of a batch handed to process_files
MaxBatch == 3

\* most files uploaded at once in a session
MaxUpload == 2

\* most chunks the splitter makes of one document
MaxPieces == 2

\* longest chat history
MaxHistory == 2

----------------------------------------------------------------------------
(* Python's str / list primitives over sequences of code points *)

Min(a, b) == IF a <= b THEN a ELSE b

Max(a, b) == IF a >= b THEN a ELSE b

\* c * n
Rep(c, n) == [i \in 1..n |-> c]

\* all sequences over S of length at most n
SeqUpTo(S, n) == UNION {[1..k -> S] : k \in 0..n}

\* str.isspace() for the code points below 256
IsSpace(c) == c \in {9, 10, 11, 12, 13, 28, 29, 30, 31, 32, 133, 160}

\* str.strip(): drop leading and trailing whitespace
Strip(s) ==
    LET keep == {i \in 1..Len(s) : ~IsSpace(s[i])}
    IN  IF keep = {} THEN <<>>
        ELSE LET lo == CHOOSE i \in keep : \A j \in keep : i <= j
                 hi == CHOOSE i \in keep : \A j \in keep : i >= j
             IN  SubSeq(s, lo, hi)

\* str.lower() on ASCII
Lower(s) == [i \in 1..Len(s) |-> IF s[i] >= 65 /\ s[i] <= 90 THEN s[i] + 32 ELSE s[i]]

\* s.split('.')[-1]: what follows the last '.', the whole string when there is none
LastDotPart(s) ==
    LET dots == {i \in 1..Len(s) : s[i] = 46}
    IN  IF dots = {} THEN s
        ELSE LET last == CHOOSE i \in dots : \A j \in dots : i >= j
             IN  SubSeq(s, last + 1, Len(s))

\* Python's < on str: lexicographic by code point, a proper prefix is smaller
StrLess(a, b) ==
    \E k \in 1..(Len(b)) :
        /\ \A i \in 1..(k - 1) : i <= Len(a) /\ a[i] = b[i]
        /\ k - 1 <= Len(a)
        /\ (k > Len(a) \/ a[k] < b[k])

\* sep.join(parts)
RECURSIVE Join(_, _)
Join(parts, sep) ==
    IF parts = <<>> THEN <<>>
    ELSE IF Len(parts) = 1 THEN parts[1]
    ELSE parts[1] \o sep \o Join(Tail(parts), sep)

\* insert x into the ascending list l
RECURSIVE InsertSorted(_, _)
InsertSorted(x, l) ==
    IF l = <<>> THEN <<x>>
    ELSE IF StrLess(x, l[1]) THEN <<x>> \o l
    ELSE <<l[1]>> \o InsertSorted(x, Tail(l))

\* sorted(S) for a set of strings
RECURSIVE Sorted(_)
Sorted(S) ==
    IF S = {} THEN <<>>
    ELSE LET x == CHOOSE y \in S : TRUE
         IN  InsertSorted(x, Sorted(S \ {x}))

----------------------------------------------------------------------------
(* retrieval_chain.py: _format_sources *)

\* "No sources found"
NoSourcesFound == <<78, 111, 32, 115, 111, 117, 114, 99, 101, 115, 32, 102, 111, 117, 110, 100>>

\* 'Unknown', the default of doc.metadata.get('source', 'Unknown')
UnknownSource == <<85, 110, 107, 110, 111, 119, 110>>

\* ", "
CommaSpace == <<44, 32>>

\* doc.metadata.get('source', 'Unknown')
MetadataSource(doc) == IF doc.hasSource THEN doc.source ELSE UnknownSource

\* the set built by the loop of _format_sources
SourceSet(source_docs) == {MetadataSource(source_docs[i]) : i \in 1..Len(source_docs)}

\* a slip: the sources joined in order of retrieval, neither deduplicated nor sorted
FormatSourcesAsRetrieved(source_docs) ==
    IF source_docs = <<>> THEN NoSourcesFound
    ELSE Join([i \in 1..Len(source_docs) |-> MetadataSource(source_docs[i])], CommaSpace)

FormatSources(source_docs) ==
    IF source_docs = <<>> THEN NoSourcesFound
    ELSE LET sources == SourceSet(source_docs)
         IN  IF Cardinality(sources) = 1 THEN CHOOSE s \in sources : TRUE
             ELSE Join(Sorted(sources), CommaSpace)

----------------------------------------------------------------------------
(* document_processor.py: extract_with_ocr                                 *)
(*                                                                         *)
(* A page of a PDF is [text, raises, ocr, ocrText]: what page.extract_text *)
(* returns (<<>> for None or ''), whether it raises instead, and what the  *)
(* OCR of the page does: "ok" (readtext returns ocrText), "blank"          *)
(* (readtext returns no fragment), "render" (fitz raises while opening or  *)
(* rendering the page), "init" (easyocr.Reader raises when constructed).   *)

\* a slip: the reader is constructed on every call, whatever the session holds
ReaderAlwaysNeeded(reader) == TRUE

\* lines 129-134: the reader is constructed only when the session holds none
ReaderNeeded(reader) == ~reader

\* returns the text, whether the session holds a reader afterwards, and how many
\* readers were constructed
ExtractWithOcr(page, reader) ==
    IF ReaderNeeded(reader) /\ page.ocr = "init"
    THEN [text |-> <<>>, reader |-> FALSE, inits |-> 0]
    ELSE LET made == IF ReaderNeeded(reader) THEN 1 ELSE 0
         IN  IF page.ocr \in {"render", "blank"}
             THEN [text |-> <<>>, reader |-> TRUE, inits |-> made]
             ELSE [text |-> page.ocrText, reader |-> TRUE, inits |-> made]

----------------------------------------------------------------------------
(* document_processor.py: extract_text_from_pdf_with_ocr *)

\* line 50: fewer characters than this (after strip) sends the page to OCR
OcrThreshold == 100

\* a slip: >= instead of >
EnoughTextInclusive(page_text) == page_text # <<>> /\ Len(Strip(page_text)) >= OcrThreshold

\* line 50: page_text and len(page_text.strip()) > 100
EnoughText(page_text) == page_text # <<>> /\ Len(Strip(page_text)) > OcrThreshold

\* a slip: the cap is not applied
PagesToProcessUncapped(total_pages, max_pages) == total_pages

\* line 29
PagesToProcess(total_pages, max_pages) == Min(total_pages, max_pages)

\* pdf.pages[:n], Python's slice
SliceTo(s, n) ==
    IF n >= 0 THEN SubSeq(s, 1, Min(n, Len(s)))
    ELSE SubSeq(s, 1, Max(0, Len(s) + n))

\* the state of the page loop before its first iteration
PageLoopStart(reader) ==
    [text |-> <<>>, touched |-> <<>>, ocrCalls |-> <<>>, reader |-> reader, inits |-> 0, aborted |-> FALSE]

\* a slip: no try/except around the body of the loop, the first failing page
\* ends the loop and the exception reaches the handler of the function
PageStepUnguarded(acc, page, page_num) ==
    IF acc.aborted THEN acc
    ELSE LET seen == [acc EXCEPT !.touched = Append(@, page_num)]
         IN  IF page.raises THEN [seen EXCEPT !.aborted = TRUE]
             ELSE IF EnoughText(page.text)
             THEN [seen EXCEPT !.text = @ \o page.text \o <<10>>]
             ELSE LET o == ExtractWithOcr(page, acc.reader)
                  IN  [seen EXCEPT !.ocrCalls = Append(@, page_num),
                                   !.reader = o.reader,
                                   !.inits = @ + o.inits,
                                   !.text = IF o.text # <<>> THEN @ \o o.text \o <<10>> ELSE @]

\* a slip: the text layer of a page is kept when OCR gives nothing for it
PageStepKeepsNative(acc, page, page_num) ==
    LET seen == [acc EXCEPT !.touched = Append(@, page_num)]
    IN  IF page.raises THEN seen
        ELSE IF EnoughText(page.text)
        THEN [seen EXCEPT !.text = @ \o page.text \o <<10>>]
        ELSE LET o == ExtractWithOcr(page, acc.reader)
             IN  [seen EXCEPT !.ocrCalls = Append(@, page_num),
                              !.reader = o.reader,
                              !.inits = @ + o.inits,
                              !.text = IF o.text # <<>> THEN @ \o o.text \o <<10>>
                                       ELSE @ \o page.text \o <<10>>]

\* lines 41-76: one iteration of the page loop
PageStep(acc, page, page_num) ==
    LET seen == [acc EXCEPT !.touched = Append(@, page_num)]
    IN  IF page.raises THEN seen
        ELSE IF EnoughText(page.text)
        THEN [seen EXCEPT !.text = @ \o page.text \o <<10>>]
        ELSE LET o == ExtractWithOcr(page, acc.reader)
             IN  [seen EXCEPT !.ocrCalls = Append(@, page_num),
                              !.reader = o.reader,
                              !.inits = @ + o.inits,
                              !.text = IF o.text # <<>> THEN @ \o o.text \o <<10>> ELSE @]

\* line 40: for page_num, page in enumerate(pages, 1)
RECURSIVE PageLoop(_, _, _)
PageLoop(pages, page_num, acc) ==
    IF page_num > Len(pages) THEN acc
    ELSE PageLoop(pages, page_num + 1, PageStep(acc, pages[page_num], page_num))

\* What an extraction function hands back, with what it did on the way:
\*   text      the returned string            raised   an exception left the function
\*   extracted the text it had before cleanup tmpLeft  temporary files still on disk
\*   touched   the pages it called extract_text on, in order
\*   ocrCalls  the pages it called extract_with_ocr on, in order
\*   reader    whether the session holds an OCR reader afterwards
\*   inits     how many OCR readers were constructed
Outcome(text, extracted, raised, tmpLeft, loop) ==
    [text |-> text, extracted |-> extracted, raised |-> raised, tmpLeft |-> tmpLeft,
     touched |-> loop.touched, ocrCalls |-> loop.ocrCalls, reader |-> loop.reader, inits |-> loop.inits]

\* lines 98-113 and 229-238: the handler of the function. The temporary file was
\* created when created = 1; its path is known when known; `failed` unlink calls
\* on it have failed so far, of the file.unlinkFails that will.
ErrorExit(file, created, known, failed, loop) ==
    LET removed == created = 1 /\ known /\ file.unlinkFails <= failed
    IN  Outcome(<<>>, loop.text, FALSE, IF removed THEN 0 ELSE created, loop)

\* lines 82-96: remove the temporary file, strip, return
PdfCleanup(file, loop) ==
    IF file.unlinkFails >= 1 THEN ErrorExit(file, 1, TRUE, 1, loop)
    ELSE Outcome(Strip(loop.text), loop.text, FALSE, 0, loop)

\* file is [name, io, corrupt, unlinkFails, pages, paras, bytes]; io is "ok", or
\* "seek" (file.seek raises), "read" (file.read or tmp_file.write raises),
\* "read2" (the second file.read raises)
ExtractPdf(file, max_pages, reader) ==
    LET start == PageLoopStart(reader)
    IN  IF file.io = "seek" THEN ErrorExit(file, 0, FALSE, 0, start)
        ELSE IF file.io = "read" THEN ErrorExit(file, 1, FALSE, 0, start)
        ELSE IF file.corrupt THEN ErrorExit(file, 1, TRUE, 0, start)
        ELSE LET n == PagesToProcess(Len(file.pages), max_pages)
                 loop == PageLoop(SliceTo(file.pages, n), 1, start)
             IN  \* an exception that leaves the loop would reach line 98; line 73
                 \* catches every one, so the loop never ends aborted
                 IF loop.aborted THEN ErrorExit(file, 1, TRUE, 0, loop)
                 ELSE PdfCleanup(file, loop)

----------------------------------------------------------------------------
(* document_processor.py: extract_text_from_docx *)

\* line 220: [p.text for p in doc.paragraphs if p.text.strip()]
RECURSIVE NonBlank(_)
NonBlank(paras) ==
    IF paras = <<>> THEN <<>>
    ELSE IF Strip(paras[1]) # <<>> THEN <<paras[1]>> \o NonBlank(Tail(paras))
    ELSE NonBlank(Tail(paras))

ExtractDocx(file, reader) ==
    LET start == PageLoopStart(reader)
    IN  IF file.io = "seek" THEN ErrorExit(file, 0, FALSE, 0, start)
        ELSE IF file.io = "read" THEN ErrorExit(file, 1, FALSE, 0, start)
        ELSE IF file.corrupt THEN ErrorExit(file, 1, TRUE, 0, start)
        ELSE LET text == Join(NonBlank(file.paras), <<10>>)
                 got == [start EXCEPT !.text = text]
             IN  IF file.unlinkFails >= 1 THEN ErrorExit(file, 1, TRUE, 1, got)
                 ELSE Outcome(text, text, FALSE, 0, got)

----------------------------------------------------------------------------
(* document_processor.py: extract_text_from_txt *)

\* bytes.decode('utf-8') for the one- and two-byte forms; every other lead byte
\* of the inputs drawn here (a continuation byte, 0xFF) is invalid in UTF-8
RECURSIVE Utf8Decode(_)
Utf8Decode(b) ==
    IF b = <<>> THEN [ok |-> TRUE, text |-> <<>>]
    ELSE IF b[1] < 128
    THEN LET r == Utf8Decode(Tail(b))
         IN  [ok |-> r.ok, text |-> IF r.ok THEN <<b[1]>> \o r.text ELSE <<>>]
    ELSE IF b[1] >= 194 /\ b[1] <= 223 /\ Len(b) >= 2 /\ b[2] >= 128 /\ b[2] <= 191
    THEN LET r == Utf8Decode(SubSeq(b, 3, Len(b)))
         IN  [ok |-> r.ok, text |-> IF r.ok THEN <<(b[1] - 192) * 64 + (b[2] - 128)>> \o r.text ELSE <<>>]
    ELSE [ok |-> FALSE, text |-> <<>>]

\* bytes.decode('latin-1'): every byte is the code point of the same value
Latin1Decode(b) == [i \in 1..Len(b) |-> b[i]]

\* lines 243-257; an exception other than UnicodeDecodeError in the first attempt
\* is caught by nothing
ExtractTxt(file, reader) ==
    LET start == PageLoopStart(reader)
        utf8 == Utf8Decode(file.bytes)
    IN  IF file.io \in {"seek", "read"} THEN Outcome(<<>>, <<>>, TRUE, 0, start)
        ELSE IF utf8.ok THEN Outcome(utf8.text, utf8.text, FALSE, 0, start)
        ELSE IF file.io = "read2" THEN Outcome(<<>>, <<>>, FALSE, 0, start)
        ELSE Outcome(Latin1Decode(file.bytes), Latin1Decode(file.bytes), FALSE, 0, start)

----------------------------------------------------------------------------
(* document_processor.py: extract_text_from_file *)

\* the default of max_pages (lines 13, 203, 260; vector_store.py line 104)
DefaultMaxPages == 20

\* "pdf", "docx", "txt"
ExtPdf == <<112, 100, 102>>

ExtDocx == <<100, 111, 99, 120>>

ExtTxt == <<116, 120, 116>>

\* line 272
FileExtension(filename) == Lower(LastDotPart(filename))

\* lines 271-292
ExtractFile(file, max_pages, reader) ==
    LET ext == FileExtension(file.name)
    IN  IF ext = ExtPdf THEN ExtractPdf(file, max_pages, reader)
        ELSE IF ext = ExtDocx THEN ExtractDocx(file, reader)
        ELSE IF ext = ExtTxt THEN ExtractTxt(file, reader)
        ELSE Outcome(<<>>, <<>>, FALSE, 0, PageLoopStart(reader))

----------------------------------------------------------------------------
(* vector_store.py: process_files *)

\* line 130: extract_text_from_file(file) is called without max_pages, so the
\* extraction runs with its own default whatever process_files was given
ExtractionCap(max_pages) == DefaultMaxPages

\* a slip: every extracted text becomes a document, blank or not
KeepsAnyText(text) == TRUE

\* line 133: if text.strip()
KeepsText(text) == Strip(text) # <<>>

\* the state of the loop over the files before its first iteration; ocrCalls
\* counts the calls of extract_with_ocr made for the files so far
FileLoopStart(reader) ==
    [documents |-> <<>>, raised |-> FALSE, pages |-> <<>>, tmpLeft |-> 0, reader |-> reader, inits |-> 0,
     ocrCalls |-> 0]

\* a slip: the document is stored without the name of its file
FileStepUnnamed(acc, file, max_pages) ==
    LET r == ExtractFile(file, ExtractionCap(max_pages), acc.reader)
        seen == [acc EXCEPT !.pages = Append(@, r.touched),
                            !.tmpLeft = @ + r.tmpLeft,
                            !.reader = r.reader,
                            !.inits = @ + r.inits,
                            !.ocrCalls = @ + Len(r.ocrCalls)]
    IN  IF r.raised THEN [seen EXCEPT !.raised = TRUE]
        ELSE IF KeepsText(r.text)
        THEN [seen EXCEPT !.documents = Append(@, [page_content |-> r.text, source |-> UnknownSource])]
        ELSE seen

\* lines 121-141: one iteration; an exception of the extraction is caught by
\* nothing here and ends process_files
FileStep(acc, file, max_pages) ==
    LET r == ExtractFile(file, ExtractionCap(max_pages), acc.reader)
        seen == [acc EXCEPT !.pages = Append(@, r.touched),
                            !.tmpLeft = @ + r.tmpLeft,
                            !.reader = r.reader,
                            !.inits = @ + r.inits,
                            !.ocrCalls = @ + Len(r.ocrCalls)]
    IN  IF r.raised THEN [seen EXCEPT !.raised = TRUE]
        ELSE IF KeepsText(r.text)
        THEN [seen EXCEPT !.documents = Append(@, [page_content |-> r.text, source |-> file.name])]
        ELSE seen

RECURSIVE FileLoop(_, _, _, _)
FileLoop(files, idx, max_pages, acc) ==
    IF idx > Len(files) \/ acc.raised THEN acc
    ELSE FileLoop(files, idx + 1, max_pages, FileStep(acc, files[idx], max_pages))

\* lines 99-143
ProcessFiles(uploaded_files, max_pages, reader) ==
    FileLoop(uploaded_files, 1, max_pages, FileLoopStart(reader))

----------------------------------------------------------------------------
(* vector_store.py: create_chunks, create_vector_database                  *)
(*                                                                         *)
(* The splitter, the embedder and FAISS are libraries: what they do is     *)
(* chosen by the environment env = [split, pieces, index]: split and index *)
(* are "ok" or "raise", pieces[i] is the number of chunks the splitter     *)
(* makes of document i.                                                    *)

\* vector_db = None (app.py line 197, vector_store.py lines 68 and 97)
NoIndex == [built |-> FALSE, chunks |-> <<>>]

\* the chunks of document i: each carries the metadata of its document
PiecesOf(documents, i, n) ==
    [k \in 1..n |-> [source |-> documents[i].source, origin |-> i, part |-> k]]

\* lines 30-37: splitter.split_documents(documents)
RECURSIVE CreateChunks(_, _, _)
CreateChunks(documents, pieces, i) ==
    IF i > Len(documents) THEN <<>>
    ELSE PiecesOf(documents, i, pieces[i]) \o CreateChunks(documents, pieces, i + 1)

\* a slip: the index is handed back although a step raised or nothing was chunked
CreateVectorDatabaseUnguarded(documents, env) ==
    LET chunks == IF env.split = "raise" THEN <<>> ELSE CreateChunks(documents, env.pieces, 1)
    IN  [raised |-> FALSE, vector_db |-> [built |-> TRUE, chunks |-> chunks], num_chunks |-> Len(chunks)]

\* lines 56-97
CreateVectorDatabase(documents, env) ==
    IF env.split = "raise" THEN [raised |-> FALSE, vector_db |-> NoIndex, num_chunks |-> 0]
    ELSE LET chunks == CreateChunks(documents, env.pieces, 1)
         IN  IF chunks = <<>> THEN [raised |-> FALSE, vector_db |-> NoIndex, num_chunks |-> 0]
             ELSE IF env.index = "raise" THEN [raised |-> FALSE, vector_db |-> NoIndex, num_chunks |-> 0]
             ELSE [raised |-> FALSE, vector_db |-> [built |-> TRUE, chunks |-> chunks], num_chunks |-> Len(chunks)]

----------------------------------------------------------------------------
(* The values of the session before anything was uploaded                 *)
(* (app.py: initialize_session_state)                                     *)

SessionInit ==
    /\ vector_db = NoIndex
    /\ uploaded_files_list = <<>>
    /\ chat_history = <<>>
    /\ processed = FALSE
    /\ num_chunks = 0

----------------------------------------------------------------------------
(* SpecSources: _format_sources applied to every short list of chunks *)

\* "a.pdf", "a.p" (a proper prefix of it), "B.txt" (upper case sorts first), "b.txt"
NameAPdf == <<97, 46, 112, 100, 102>>

NameAP == <<97, 46, 112>>

NameUpperB == <<66, 46, 116, 120, 116>>

SourceNames == {NameAPdf, NameAP, NameUpperB}

\* a retrieved chunk, as far as _format_sources reads it
SourceDocs == [hasSource : {TRUE}, source : SourceNames] \cup [hasSource : {FALSE}, source : {<<>>}]

NoOut == [kind |-> "none"]

InitSources ==
    /\ pc = "input"
    /\ inp \in [kind : {"sources"}, source_docs : SeqUpTo(SourceDocs, MaxSrcDocs)]
    /\ out = NoOut
    /\ ocr_reader = FALSE
    /\ SessionInit
    /\ discarded = {}

RunFormatSources ==
    /\ pc = "input"
    /\ inp.kind = "sources"
    /\ out' = [kind |-> "sources", sources |-> FormatSources(inp.source_docs)]
    /\ pc' = "done"
    /\ UNCHANGED <<inp, ocr_reader, session, discarded>>

NextSources == RunFormatSources

SpecSources == InitSources /\ [][NextSources]_vars

----------------------------------------------------------------------------
(* SpecExtract: extract_text_from_file applied to one file *)

\* page n has its own letters, so that the text of a page is recognised in the
\* result: the text layer of page n is made of the n-th lower-case letter, its
\* OCR of the n-th upper-case letter
NativeLetter(n) == 96 + n

OcrLetter(n) == 64 + n

\* what the text layer of page n may hold: nothing; 5 characters; exactly 100;
\* 100 characters between 5 blanks on either side; 101 characters
NativeText(kind, n) ==
    CASE kind = "none" -> <<>>
      [] kind = "short" -> Rep(NativeLetter(n), 5)
      [] kind = "edge" -> Rep(NativeLetter(n), OcrThreshold)
      [] kind = "padded" -> Rep(32, 5) \o Rep(NativeLetter(n), OcrThreshold) \o Rep(32, 5)
      [] kind = "ample" -> Rep(NativeLetter(n), OcrThreshold + 1)
      [] OTHER -> <<>>

PageKinds ==
    {<<"none", "ok">>, <<"none", "blank">>,
     <<"short", "ok">>, <<"short", "render">>, <<"short", "init">>,
     <<"edge", "ok">>, <<"padded", "ok">>, <<"ample", "ok">>, <<"raise", "ok">>}

MkPage(kind, n) ==
    [text |-> NativeText(kind[1], n), raises |-> kind[1] = "raise",
     ocr |-> kind[2], ocrText |-> Rep(OcrLetter(n), 3)]

MkPages(kinds) == [n \in 1..Len(kinds) |-> MkPage(kinds[n], n)]

MkFile(name, io, corrupt, unlinkFails, pages, paras, bytes) ==
    [name |-> name, io |-> io, corrupt |-> corrupt, unlinkFails |-> unlinkFails,
     pages |-> pages, paras |-> paras, bytes |-> bytes]

\* "g.docx", "b.txt", "d.csv", "R.PDF", "pdf"
NameDocx == <<103, 46, 100, 111, 99, 120>>

NameTxt == <<98, 46, 116, 120, 116>>

NameCsv == <<100, 46, 99, 115, 118>>

NameUpperPdf == <<82, 46, 80, 68, 70>>

NameBarePdf == <<112, 100, 102>>

\* a file whose stream fails, a file that does not parse, or a file with content;
\* the removal of its temporary copy fails 0, 1 or 2 times
FaultyFiles(name) ==
    {MkFile(name, io, FALSE, 0, <<>>, <<>>, <<>>) : io \in {"seek", "read"}}
    \cup {MkFile(name, "ok", TRUE, u, <<>>, <<>>, <<>>) : u \in 0..2}

PdfFiles ==
    FaultyFiles(NameAPdf)
    \cup {MkFile(NameAPdf, "ok", FALSE, u, MkPages(k), <<>>, <<>>) :
            u \in 0..2, k \in SeqUpTo(PageKinds, MaxPdfPages)}
    \cup {MkFile(n, "ok", FALSE, 0, MkPages(<<<<"short", "ok">>>>), <<>>, <<>>) :
            n \in {NameUpperPdf, NameBarePdf}}

\* paragraphs "p", "q", two blanks, the empty paragraph
ParaTexts == {<<112>>, <<113>>, <<32, 32>>, <<>>}

DocxFiles ==
    FaultyFiles(NameDocx)
    \cup {MkFile(NameDocx, "ok", FALSE, u, <<>>, p, <<>>) :
            u \in 0..2, p \in SeqUpTo(ParaTexts, MaxParas)}

\* 'A', ' ', the two bytes of U+00E9 in UTF-8, and a byte no UTF-8 text holds
ByteVals == {65, 32, 195, 169, 255}

TxtFiles ==
    {MkFile(NameTxt, io, FALSE, 0, <<>>, <<>>, b) :
        io \in {"ok", "seek", "read", "read2"}, b \in SeqUpTo(ByteVals, MaxBytes)}

OtherFiles == {MkFile(NameCsv, "ok", FALSE, 0, <<>>, <<>>, <<65>>)}

InitExtract ==
    /\ pc = "input"
    /\ inp \in [kind : {"extract"},
                file : PdfFiles \cup DocxFiles \cup TxtFiles \cup OtherFiles,
                max_pages : 0..MaxCap]
    /\ out = NoOut
    /\ ocr_reader \in BOOLEAN
    /\ SessionInit
    /\ discarded = {}

RunExtractFile ==
    /\ pc = "input"
    /\ inp.kind = "extract"
    /\ LET r == ExtractFile(inp.file, inp.max_pages, ocr_reader)
       IN  /\ out' = [kind |-> "extract", ext |-> FileExtension(inp.file.name), reader0 |-> ocr_reader, r |-> r]
           /\ ocr_reader' = r.reader
    /\ pc' = "done"
    /\ UNCHANGED <<inp, session, discarded>>

NextExtract == RunExtractFile

SpecExtract == InitExtract /\ [][NextExtract]_vars

\* the ascending arrangement of a finite set of strings
Ascending(S) ==
    CHOOSE s \in [1..Cardinality(S) -> S] :
        \A i \in 1..(Cardinality(S) - 1) : StrLess(s[i], s[i + 1])

\* C1: _format_sources returns "No sources found" for an empty list, the single
\* distinct source bare when there is exactly one, and otherwise the distinct
\* sources, each once, in ascending lexicographic order, separated by ", ".
C1_FormatSources ==
    (pc = "done" /\ inp.kind = "sources") =>
        LET docs == inp.source_docs
            D == {IF docs[i].hasSource THEN docs[i].source ELSE UnknownSource : i \in 1..Len(docs)}
        IN  /\ docs = <<>> => out.sources = NoSourcesFound
            /\ Cardinality(D) = 1 => \A d \in D : out.sources = d
            /\ Cardinality(D) > 1 => out.sources = Join(Ascending(D), CommaSpace)

\* a list with a repeated source and a second source retrieved out of order
C1_Witness ==
    /\ pc = "done"
    /\ inp.kind = "sources"
    /\ Len(inp.source_docs) = 3
    /\ inp.source_docs[1].source = NameAPdf
    /\ inp.source_docs[2].source = NameUpperB
    /\ inp.source_docs[3].source = NameAPdf
    /\ out.sources = NameUpperB \o CommaSpace \o NameAPdf

----------------------------------------------------------------------------
(* Claims about the extraction of one file (SpecExtract) *)

PdfNames == {NameAPdf, NameUpperPdf, NameBarePdf}

ExtractDone == pc = "done" /\ inp.kind = "extract"

\* the stream could be read and the file parsed
Readable == inp.file.io = "ok" /\ ~inp.file.corrupt

PdfDone == ExtractDone /\ inp.file.name \in PdfNames

DocxDone == ExtractDone /\ inp.file.name = NameDocx

TxtDone == ExtractDone /\ inp.file.name = NameTxt

\* how often x occurs in the list s
Count(s, x) == Cardinality({i \in 1..Len(s) : s[i] = x})

\* t occurs in s as a contiguous piece
Contains(s, t) == \E k \in 0..(Len(s) - Len(t)) : SubSeq(s, k + 1, k + Len(t)) = t

\* the pages within the cap
Capped == 1..(IF Len(inp.file.pages) <= inp.max_pages THEN Len(inp.file.pages) ELSE inp.max_pages)

\* the page a character of the result comes from
PageOf(c) == IF c > 96 THEN c - 96 ELSE c - 64

\* C2 as stated: for every processed page, OCR is invoked exactly once when the
\* directly extracted text has length <= 100 and never when it is longer than 100.
C2_Original ==
    (PdfDone /\ Readable) =>
        \A n \in Capped :
            LET page == inp.file.pages[n]
            IN  ~page.raises =>
                    /\ Len(page.text) <= 100 => Count(out.r.ocrCalls, n) = 1
                    /\ Len(page.text) > 100 => Count(out.r.ocrCalls, n) = 0

\* C2, amended: for every processed page whose direct extraction returned, OCR is
\* invoked exactly once when the text has at most 100 characters after stripping
\* leading and trailing whitespace (or there is none), and never when it has more;
\* so a PDF of N pages within the cap, all without text, causes N OCR calls and one
\* whose pages all have more than 100 stripped characters causes none.
C2_OcrDecision ==
    (PdfDone /\ Readable) =>
        /\ \A n \in Capped :
               LET page == inp.file.pages[n]
                   kept == {i \in 1..Len(page.text) : ~IsSpace(page.text[i])}
                   width == IF kept = {} THEN 0
                            ELSE 1 + (CHOOSE i \in kept : \A j \in kept : i >= j)
                                   - (CHOOSE i \in kept : \A j \in kept : i <= j)
               IN  ~page.raises =>
                       /\ width <= 100 => Count(out.r.ocrCalls, n) = 1
                       /\ width > 100 => Count(out.r.ocrCalls, n) = 0
        /\ \A n \in 1..Len(out.r.ocrCalls) : out.r.ocrCalls[n] \in Capped
        /\ (Len(inp.file.pages) <= inp.max_pages
              /\ \A n \in 1..Len(inp.file.pages) :
                    ~inp.file.pages[n].raises /\ inp.file.pages[n].text = <<>>)
           => Len(out.r.ocrCalls) = Len(inp.file.pages)
        /\ (\A n \in 1..Len(inp.file.pages) :
                ~inp.file.pages[n].raises /\ Len(Strip(inp.file.pages[n].text)) > 100)
           => out.r.ocrCalls = <<>>

\* page 1 holds 110 characters of which 100 remain after strip, page 2 holds 101:
\* OCR ran on page 1 only
C2_Witness ==
    /\ PdfDone
    /\ Readable
    /\ Len(inp.file.pages) = 2
    /\ inp.max_pages = 2
    /\ Len(inp.file.pages[1].text) = 110
    /\ Len(inp.file.pages[2].text) = 101
    /\ out.r.ocrCalls = <<1>>

\* a page failed: extract_text raised, or the OCR of the page failed inside
PageFailed(n) ==
    LET page == inp.file.pages[n]
    IN  \/ page.raises
        \/ Len(Strip(page.text)) <= 100 /\ page.ocr \in {"render", "init"}

\* C3: when extract_text, the rendering or the OCR of a page raises, every page up
\* to the cap is still processed, and the returned text holds the text of every
\* other page, before and after it (the temporary file being removable: its
\* removal failing is the case of C9).
C3_PageFailureIsolated ==
    (PdfDone /\ Readable /\ inp.file.unlinkFails = 0 /\ \E i \in Capped : PageFailed(i)) =>
        /\ ~out.r.raised
        /\ \A j \in Capped :
               LET page == inp.file.pages[j]
               IN  /\ Count(out.r.touched, j) = 1
                   /\ (~page.raises /\ Len(Strip(page.text)) > 100)
                      => Contains(out.r.text, page.text)
                   /\ (~page.raises /\ Len(Strip(page.text)) <= 100 /\ page.ocr = "ok")
                      => Contains(out.r.text, page.ocrText)

\* extract_text raised on page 1, page 2 has a text layer, and its text is returned
C3_Witness ==
    /\ PdfDone
    /\ Readable
    /\ inp.file.unlinkFails = 0
    /\ inp.max_pages = 2
    /\ Len(inp.file.pages) = 2
    /\ inp.file.pages[1].raises
    /\ Len(inp.file.pages[2].text) = 101
    /\ out.r.touched = <<1, 2>>
    /\ out.r.text = inp.file.pages[2].text

\* C5: extract_text_from_pdf_with_ocr(file, max_pages) processes the first
\* min(total_pages, max_pages) pages, in ascending order, each once, touches no
\* page beyond max_pages, and the text is made of the contributions of these pages
\* in page order.
C5_PageCap ==
    (PdfDone /\ Readable) =>
        /\ out.r.touched = [n \in Capped |-> n]
        /\ \A n \in 1..Len(out.r.ocrCalls) : out.r.ocrCalls[n] <= inp.max_pages
        /\ \A t \in {out.r.extracted, out.r.text} :
               /\ \A p \in 1..Len(t) : ~IsSpace(t[p]) => PageOf(t[p]) \in Capped
               /\ \A p, q \in 1..Len(t) :
                      (p < q /\ ~IsSpace(t[p]) /\ ~IsSpace(t[q])) => PageOf(t[p]) <= PageOf(t[q])
        /\ inp.file.unlinkFails = 0 => out.r.text = Strip(out.r.extracted)

\* a PDF of 2 pages read with max_pages = 1: page 1 alone was processed
C5_Witness ==
    /\ PdfDone
    /\ Readable
    /\ Len(inp.file.pages) = 2
    /\ inp.max_pages = 1
    /\ out.r.touched = <<1>>
    /\ out.r.text = Rep(OcrLetter(1), 3)

\* C8: whenever the extraction of a PDF or DOCX returns, every temporary file it
\* created has been removed, on every path (the file system letting it be removed).
C8_TempFilesRemoved ==
    ((PdfDone \/ DocxDone) /\ inp.file.unlinkFails = 0) => out.r.tmpLeft = 0

\* C9: when removing the temporary file fails after the content of a PDF or DOCX
\* was extracted, the extraction still returns the text it extracted.
C9_DeletionFailureNonFatal ==
    ((PdfDone \/ DocxDone) /\ Readable /\ inp.file.unlinkFails > 0) =>
        /\ ~out.r.raised
        /\ PdfDone => out.r.text = Strip(out.r.extracted)
        /\ DocxDone => out.r.text = out.r.extracted

\* C10: extract_text_from_txt returns the UTF-8 decoding of valid bytes, the
\* Latin-1 decoding otherwise, and on any exception while seeking, reading or
\* decoding returns the empty text without raising.
C10_TxtFallback ==
    TxtDone =>
        /\ ~out.r.raised
        /\ (inp.file.io = "ok" /\ Utf8Decode(inp.file.bytes).ok)
           => out.r.text = Utf8Decode(inp.file.bytes).text
        /\ (inp.file.io = "ok" /\ ~Utf8Decode(inp.file.bytes).ok)
           => out.r.text = Latin1Decode(inp.file.bytes)
        /\ inp.file.io \in {"seek", "read"} => out.r.text = <<>>

----------------------------------------------------------------------------
(* SpecBatch: process_files applied to a batch of uploaded files *)

\* "w.txt", "c.pdf", "u.txt", "E.TXT", "k.docx", "f.pdf"
NameBlankTxt == <<119, 46, 116, 120, 116>>

NameCorruptPdf == <<99, 46, 112, 100, 102>>

NameUnreadableTxt == <<117, 46, 116, 120, 116>>

NameUpperTxt == <<69, 46, 84, 88, 84>>

NameCorruptDocx == <<107, 46, 100, 111, 99, 120>>

NameStuckPdf == <<102, 46, 112, 100, 102>>

\* a TXT "A"; a TXT of blanks; a PDF that does not parse; a scanned PDF of two
\* pages; a CSV; a TXT whose stream raises; a TXT that is not UTF-8, its
\* extension in upper case; a DOCX "p"; a DOCX that does not parse; a PDF with a
\* text layer whose stream raises
Pool ==
    {MkFile(NameTxt, "ok", FALSE, 0, <<>>, <<>>, <<65>>),
     MkFile(NameBlankTxt, "ok", FALSE, 0, <<>>, <<>>, <<32, 32>>),
     MkFile(NameCorruptPdf, "ok", TRUE, 0, <<>>, <<>>, <<>>),
     MkFile(NameAPdf, "ok", FALSE, 0, MkPages(<<<<"none", "ok">>, <<"short", "ok">>>>), <<>>, <<>>),
     MkFile(NameCsv, "ok", FALSE, 0, <<>>, <<>>, <<65>>),
     MkFile(NameUnreadableTxt, "read", FALSE, 0, <<>>, <<>>, <<65>>),
     MkFile(NameUpperTxt, "ok", FALSE, 0, <<>>, <<>>, <<255, 65>>),
     MkFile(NameDocx, "ok", FALSE, 0, <<>>, <<<<112>>>>, <<>>),
     MkFile(NameCorruptDocx, "ok", TRUE, 0, <<>>, <<>>, <<>>),
     MkFile(NameStuckPdf, "seek", FALSE, 0, MkPages(<<<<"ample", "ok">>>>), <<>>, <<>>)}

InitBatch ==
    /\ pc = "input"
    /\ inp \in [kind : {"batch"}, files : SeqUpTo(Pool, MaxBatch), max_pages : 1..MaxCap]
    /\ out = NoOut
    /\ ocr_reader \in BOOLEAN
    /\ SessionInit
    /\ discarded = {}

RunProcessFiles ==
    /\ pc = "input"
    /\ inp.kind = "batch"
    /\ LET r == ProcessFiles(inp.files, inp.max_pages, ocr_reader)
       IN  /\ out' = [kind |-> "batch", r |-> r]
           /\ ocr_reader' = r.reader
    /\ pc' = "done"
    /\ UNCHANGED <<inp, session, discarded>>

NextBatch == RunProcessFiles

SpecBatch == InitBatch /\ [][NextBatch]_vars

BatchDone == pc = "done" /\ inp.kind = "batch"

\* C4: no PDF of a batch has more than max_pages pages processed, max_pages being
\* the argument of process_files.
C4_BatchHonoursCap ==
    BatchDone => \A i \in 1..Len(out.r.pages) : Len(out.r.pages[i]) <= inp.max_pages

\* the files of the pool that hold text an extraction can reach
TextFiles == {NameTxt, NameAPdf, NameUpperTxt, NameDocx}

\* the names of the files of l that are in S, in the order of l
RECURSIVE NamesIn(_, _)
NamesIn(l, S) ==
    IF l = <<>> THEN <<>>
    ELSE IF l[1].name \in S THEN <<l[1].name>> \o NamesIn(Tail(l), S)
    ELSE NamesIn(Tail(l), S)

\* C7: a file of the batch that is unsupported, corrupt or yields no text or only
\* whitespace is skipped without raising and without stopping the loop, and the
\* documents returned are one per file that yielded non-blank text, in upload
\* order (the batch holding no TXT file whose stream raises: the case of C10).
C7_BatchFailureIsolated ==
    (BatchDone /\ \A i \in 1..Len(inp.files) : inp.files[i].name # NameUnreadableTxt) =>
        /\ ~out.r.raised
        /\ Len(out.r.pages) = Len(inp.files)
        /\ [i \in 1..Len(out.r.documents) |-> out.r.documents[i].source] = NamesIn(inp.files, TextFiles)
        /\ \A i \in 1..Len(out.r.documents) :
               \E k \in 1..Len(out.r.documents[i].page_content) :
                   ~IsSpace(out.r.documents[i].page_content[k])

\* a corrupt PDF between two valid files: two documents, in upload order
C7_Witness ==
    /\ BatchDone
    /\ Len(inp.files) = 3
    /\ inp.files[1].name = NameDocx
    /\ inp.files[2].name = NameCorruptPdf
    /\ inp.files[3].name = NameTxt
    /\ ~out.r.raised
    /\ out.r.documents = <<[page_content |-> <<112>>, source |-> NameDocx],
                           [page_content |-> <<65>>, source |-> NameTxt]>>

----------------------------------------------------------------------------
(* Spec: the session (app.py). Each action is one handler of the page, run *)
(* to its end; inp and out record the last handler's arguments and what it *)
(* did.                                                                    *)

\* the files a user uploads here: a TXT "A", a scanned PDF of two pages (the
\* construction of the OCR reader fails when it is tried for the first page), a
\* PDF that does not parse, a TXT whose stream raises
Uploads ==
    {MkFile(NameTxt, "ok", FALSE, 0, <<>>, <<>>, <<65>>),
     MkFile(NameAPdf, "ok", FALSE, 0, MkPages(<<<<"short", "init">>, <<"none", "ok">>>>), <<>>, <<>>),
     MkFile(NameCorruptPdf, "ok", TRUE, 0, <<>>, <<>>, <<>>),
     MkFile(NameUnreadableTxt, "read", FALSE, 0, <<>>, <<>>, <<65>>)}

Batches == SeqUpTo(Uploads, MaxUpload) \ {<<>>}

\* what the splitter and the index construction may do with n documents
BuildEnvs(n) ==
    {[split |-> "raise", pieces |-> [i \in 1..n |-> 0], index |-> "ok"]}
    \cup [split : {"ok"}, pieces : [1..n -> 0..MaxPieces], index : {"ok", "raise"}]

\* "q", "  ": what is typed as a question; "x": what the model answers
Questions == {<<113>>, <<32, 32>>}

AnswerText == <<120>>

\* retrieval_chain.py line 16
K == 6

Init ==
    /\ pc = "idle"
    /\ inp = [kind |-> "none"]
    /\ out = NoOut
    /\ ocr_reader = FALSE
    /\ SessionInit
    /\ discarded = {}

\* app.py lines 262-274: the index is stored only when it was built
StoreIndex(uploaded_files, env, pf, called, cvd) ==
    /\ inp' = [kind |-> "process", files |-> uploaded_files, env |-> env]
    /\ out' = [kind |-> "process", raised |-> pf.raised \/ cvd.raised,
               documents |-> pf.documents, called |-> called,
               vector_db |-> cvd.vector_db, num_chunks |-> cvd.num_chunks,
               ocrCalls |-> pf.ocrCalls, inits |-> pf.inits]
    /\ IF called /\ ~cvd.raised /\ cvd.vector_db.built /\ cvd.num_chunks > 0
       THEN /\ vector_db' = cvd.vector_db
            /\ uploaded_files_list' = [i \in 1..Len(uploaded_files) |-> uploaded_files[i].name]
            /\ processed' = TRUE
            /\ num_chunks' = cvd.num_chunks
            /\ UNCHANGED chat_history
       ELSE UNCHANGED session

\* app.py lines 254-260: create_vector_database is called when process_files
\* returned documents
BuildIndex(uploaded_files, env, pf, called) ==
    StoreIndex(uploaded_files, env, pf, called,
               IF called THEN CreateVectorDatabase(pf.documents, env)
               ELSE [raised |-> FALSE, vector_db |-> NoIndex, num_chunks |-> 0])

\* app.py lines 248-254, with what process_files returned
ProcessExtracted(uploaded_files, pf) ==
    /\ ocr_reader' = pf.reader
    /\ \E env \in BuildEnvs(Len(pf.documents)) :
           BuildIndex(uploaded_files, env, pf, ~pf.raised /\ pf.documents # <<>>)

\* app.py lines 232-234, 239-274: the button is shown while nothing is processed
ProcessDocuments(uploaded_files) ==
    /\ pc = "idle"
    /\ ~processed
    /\ UNCHANGED discarded
    /\ ProcessExtracted(uploaded_files, ProcessFiles(uploaded_files, DefaultMaxPages, ocr_reader))
    /\ pc' = "ran"

\* the members of a set of positions, ascending
RECURSIVE InOrder(_)
InOrder(S) ==
    IF S = {} THEN <<>>
    ELSE LET lo == CHOOSE i \in S : \A j \in S : i <= j
         IN  <<lo>> \o InOrder(S \ {lo})

\* retrieval_chain.py lines 26-29: the chunks a similarity search may hand back,
\* at most K of them (listed in the order of the index; _format_sources does not
\* read the order)
Picked(chunks, order) == [i \in 1..Len(order) |-> chunks[order[i]]]

Retrievals(db) ==
    {Picked(db.chunks, InOrder(S)) : S \in {T \in SUBSET (1..Len(db.chunks)) : Cardinality(T) <= K}}

\* what the construction of the client and the invocation of the chain may do
QueryEnvs == [llm : {"ok", "raise"}, chain : {"ok", "raise"}]

\* the retriever hands chunks back only when the chain runs to its end
Retrieves(env) == env.llm = "ok" /\ env.chain = "ok"

\* retrieval_chain.py lines 66-104: env is [llm, chain]: the construction of the
\* client and the invocation of the chain are "ok" or "raise"
GetAnswer(db, query, env, retrieved) ==
    IF env.chain = "raise" THEN [ok |-> FALSE]
    ELSE [ok |-> TRUE, answer |-> AnswerText,
          sources |-> FormatSources([i \in 1..Len(retrieved) |-> [hasSource |-> TRUE, source |-> retrieved[i].source]]),
          source_documents |-> retrieved]

\* a slip: the record is put in front of the history
HandleQueryPrepends(query, env, retrieved) ==
    /\ inp' = [kind |-> "query", query |-> query, env |-> env]
    /\ IF env.llm = "raise"
       THEN /\ out' = [kind |-> "query", raised |-> TRUE, answered |-> FALSE]
            /\ UNCHANGED chat_history
       ELSE LET result == GetAnswer(vector_db, query, env, retrieved)
            IN  /\ out' = [kind |-> "query", raised |-> FALSE, answered |-> result.ok,
                            source_documents |-> IF result.ok THEN result.source_documents ELSE <<>>]
                /\ chat_history' =
                       IF result.ok
                       THEN <<[question |-> query, answer |-> result.answer, sources |-> result.sources]>> \o chat_history
                       ELSE chat_history
    /\ pc' = "ran"
    /\ UNCHANGED <<vector_db, uploaded_files_list, processed, num_chunks, ocr_reader, discarded>>

\* app.py lines 350-370: handle_query
HandleQuery(query, env, retrieved) ==
    /\ inp' = [kind |-> "query", query |-> query, env |-> env]
    /\ IF env.llm = "raise"
       THEN /\ out' = [kind |-> "query", raised |-> TRUE, answered |-> FALSE]
            /\ UNCHANGED chat_history
       ELSE LET result == GetAnswer(vector_db, query, env, retrieved)
            IN  /\ out' = [kind |-> "query", raised |-> FALSE, answered |-> result.ok,
                            source_documents |-> IF result.ok THEN result.source_documents ELSE <<>>]
                /\ chat_history' =
                       IF result.ok
                       THEN Append(chat_history, [question |-> query, answer |-> result.answer, sources |-> result.sources])
                       ELSE chat_history
    /\ pc' = "ran"
    /\ UNCHANGED <<vector_db, uploaded_files_list, processed, num_chunks, ocr_reader, discarded>>

\* app.py lines 317-318, 344-345: the chat is shown while an index is processed,
\* and a question of white space only is not sent
SendQuery(query, env) ==
    /\ pc = "idle"
    /\ processed
    /\ Strip(query) # <<>>
    /\ Len(chat_history) < MaxHistory
    /\ \E retrieved \in (IF Retrieves(env) THEN Retrievals(vector_db) ELSE {<<>>}) :
           HandleQuery(query, env, retrieved)

\* a slip: Clear History resets the chunk count and the file list too
ClearHistoryResetsLists ==
    /\ pc = "idle"
    /\ processed
    /\ Len(chat_history) > 0
    /\ chat_history' = <<>>
    /\ inp' = [kind |-> "clear_history"]
    /\ out' = NoOut
    /\ pc' = "ran"
    /\ uploaded_files_list' = <<>>
    /\ num_chunks' = 0
    /\ UNCHANGED <<vector_db, processed, ocr_reader, discarded>>

\* app.py lines 339-342
ClearHistory ==
    /\ pc = "idle"
    /\ processed
    /\ Len(chat_history) > 0
    /\ chat_history' = <<>>
    /\ inp' = [kind |-> "clear_history"]
    /\ out' = NoOut
    /\ pc' = "ran"
    /\ UNCHANGED <<vector_db, uploaded_files_list, processed, num_chunks, ocr_reader, discarded>>

\* a slip: Clear All resets the flags and the lists and leaves the index
ClearAllKeepsIndex ==
    /\ pc = "idle"
    /\ processed
    /\ vector_db' = vector_db
    /\ uploaded_files_list' = <<>>
    /\ chat_history' = <<>>
    /\ processed' = FALSE
    /\ num_chunks' = 0
    /\ inp' = [kind |-> "clear_all"]
    /\ out' = NoOut
    /\ pc' = "ran"
    /\ discarded' = {vector_db.chunks[i].source : i \in 1..Len(vector_db.chunks)}
    /\ UNCHANGED ocr_reader

\* app.py lines 292-293, 303-310
ClearAll ==
    /\ pc = "idle"
    /\ processed
    /\ vector_db' = NoIndex
    /\ uploaded_files_list' = <<>>
    /\ chat_history' = <<>>
    /\ processed' = FALSE
    /\ num_chunks' = 0
    /\ inp' = [kind |-> "clear_all"]
    /\ out' = NoOut
    /\ pc' = "ran"
    /\ discarded' = {vector_db.chunks[i].source : i \in 1..Len(vector_db.chunks)}
    /\ UNCHANGED ocr_reader

\* app.py lines 415-427: the script runs again and draws the page anew; what the
\* last handler was given and did is no longer on the page
Rerun ==
    /\ pc = "ran"
    /\ pc' = "idle"
    /\ inp' = [kind |-> "none"]
    /\ out' = NoOut
    /\ UNCHANGED <<session, ocr_reader, discarded>>

Next ==
    \/ \E f \in Batches : ProcessDocuments(f)
    \/ \E q \in Questions, env \in QueryEnvs : SendQuery(q, env)
    \/ ClearHistory
    \/ ClearAll
    \/ Rerun

Spec == Init /\ [][Next]_vars

\* C6: create_vector_database never raises; when chunking yields no chunk or the
\* chunking or the construction of the index raises, it returns (None, 0) and the
\* session keeps vector_db = None and processed = False; it returns an index only
\* with a chunk count > 0 equal to the number of chunks indexed, and no index is
\* held by the session (or answers a query) unless it was built whole.
C6_IndexAllOrNothing ==
    /\ (inp.kind = "process" /\ out.called) =>
           LET made == IF inp.env.split = "raise" THEN 0
                       ELSE Cardinality({<<i, k>> \in (1..Len(out.documents)) \X (1..MaxPieces) :
                                            k <= inp.env.pieces[i]})
               failed == made = 0 \/ inp.env.index = "raise"
           IN  /\ ~out.raised
               /\ failed => (~out.vector_db.built /\ out.num_chunks = 0
                             /\ ~vector_db.built /\ ~processed)
               /\ ~failed => (out.vector_db.built /\ out.num_chunks = made
                              /\ Len(out.vector_db.chunks) = made
                              /\ vector_db = out.vector_db /\ processed)
               /\ out.vector_db.built => out.num_chunks > 0
    /\ processed = vector_db.built
    /\ vector_db.built => (Len(vector_db.chunks) > 0 /\ num_chunks = Len(vector_db.chunks))
    /\ (inp.kind = "query" /\ out.answered) => vector_db.built

\* two documents were extracted, the splitter made chunks of them, and building
\* the index raised: nothing is stored
C6_Witness ==
    /\ inp.kind = "process"
    /\ out.called
    /\ Len(out.documents) = 2
    /\ inp.env.split = "ok"
    /\ inp.env.pieces[1] = 2
    /\ inp.env.index = "raise"
    /\ ~out.vector_db.built
    /\ ~processed
    /\ ~vector_db.built

\* C11: within a session the OCR reader is constructed lazily, on a call of
\* extract_with_ocr, and at most once with success: a handler that makes no OCR
\* call constructs none, a handler that starts with a reader constructs none and
\* keeps the one held, a handler constructs at most one over all the pages and
\* documents it reads, and no handler (Clear All included) drops the reader.
C11_ReaderStep ==
    /\ ocr_reader => ocr_reader'
    /\ inp'.kind = "process" =>
           /\ out'.inits <= 1
           /\ out'.ocrCalls = 0 => out'.inits = 0
           /\ ocr_reader => out'.inits = 0
           /\ ocr_reader' = (ocr_reader \/ out'.inits = 1)
    /\ inp'.kind # "process" => ocr_reader' = ocr_reader

C11_ReaderConstructedOnce == [][C11_ReaderStep]_vars

\* the scanned PDF was uploaded twice in one batch: four OCR calls over two
\* documents (the first found no reader and failed to construct one), one reader
\* constructed, and it is held
C11_Witness ==
    /\ inp.kind = "process"
    /\ Len(inp.files) = 2
    /\ \A i \in 1..2 : inp.files[i].name = NameAPdf
    /\ out.ocrCalls = 4
    /\ out.inits = 1
    /\ ocr_reader

\* a later batch, after Clear All, makes OCR calls with the reader the session
\* already holds
C11_Reused ==
    /\ inp.kind = "process"
    /\ out.ocrCalls > 0
    /\ out.inits = 0
    /\ ocr_reader

\* the file names of a list of uploaded files / of a list of chunks
FileNames(files) == {files[i].name : i \in 1..Len(files)}

ChunkSources(chunks) == {chunks[i].source : i \in 1..Len(chunks)}

\* the file names the session lists as uploaded
ListedNames == {uploaded_files_list[i] : i \in 1..Len(uploaded_files_list)}

\* C12: the session holds the index of the last build only: Clear All leaves no
\* index, a build stores exactly the index made of its own batch, every chunk of
\* the index held has a file of the current upload list as its source, and a
\* query answered after a rebuild retrieves chunks of the index held, none whose
\* source is a file of the discarded set only.
C12_RebuildDiscards ==
    /\ ChunkSources(vector_db.chunks) \subseteq ListedNames
    /\ inp.kind = "clear_all" => vector_db = NoIndex
    /\ (inp.kind = "process" /\ processed) =>
           /\ vector_db = out.vector_db
           /\ ChunkSources(vector_db.chunks) \subseteq FileNames(inp.files)
           /\ uploaded_files_list = [i \in 1..Len(inp.files) |-> inp.files[i].name]
    /\ (inp.kind = "query" /\ out.answered) =>
           /\ \A j \in 1..Len(out.source_documents) :
                  \E i \in 1..Len(vector_db.chunks) : out.source_documents[j] = vector_db.chunks[i]
           /\ ChunkSources(out.source_documents) \subseteq ListedNames
           /\ ChunkSources(out.source_documents) \cap (discarded \ ListedNames) = {}

\* an index of the TXT was built and cleared, an index of the scanned PDF was
\* built, and a query was answered from it with a retrieved chunk
C12_Witness ==
    /\ discarded = {NameTxt}
    /\ uploaded_files_list = <<NameAPdf>>
    /\ inp.kind = "query"
    /\ out.answered
    /\ out.source_documents # <<>>
    /\ ChunkSources(out.source_documents) = {NameAPdf}

\* C13: a query whose retrieval or language-model call fails, the construction
\* of the language-model client included, ends with no result and without an
\* exception leaving the handler; a query with no failure is answered.
C13_QueryFailureHandled ==
    inp.kind = "query" =>
        /\ ~out.raised
        /\ (inp.env.llm = "raise" \/ inp.env.chain = "raise") => ~out.answered
        /\ (inp.env.llm = "ok" /\ inp.env.chain = "ok") => out.answered

\* p is a prefix of h
IsPrefix(p, h) == Len(p) <= Len(h) /\ \A i \in 1..Len(p) : h[i] = p[i]

\* C14: an answered query appends exactly one record {question, answer, sources}
\* at the end of chat_history, a query that fails appends nothing, and every step
\* other than Clear History and Clear All keeps the earlier history as a prefix.
C14_HistoryStep ==
    /\ (inp'.kind = "query" /\ out'.answered) =>
           /\ Len(chat_history') = Len(chat_history) + 1
           /\ IsPrefix(chat_history, chat_history')
           /\ DOMAIN chat_history'[Len(chat_history')] = {"question", "answer", "sources"}
           /\ chat_history'[Len(chat_history')].question = inp'.query
           /\ chat_history'[Len(chat_history')].answer = AnswerText
           /\ chat_history'[Len(chat_history')].sources =
                  FormatSources([i \in 1..Len(out'.source_documents) |->
                                    [hasSource |-> TRUE, source |-> out'.source_documents[i].source]])
    /\ (inp'.kind = "query" /\ ~out'.answered) => chat_history' = chat_history
    /\ inp'.kind \notin {"clear_history", "clear_all"} => IsPrefix(chat_history, chat_history')

C14_HistoryAppendOnly == [][C14_HistoryStep]_vars

\* a second query was answered with retrieved chunks: the history holds two
\* records, the new one last
C14_Witness ==
    /\ inp.kind = "query"
    /\ out.answered
    /\ out.source_documents # <<>>
    /\ Len(chat_history) = 2
    /\ chat_history[2].question = inp.query
    /\ chat_history[1].sources # chat_history[2].sources

SessionConsistent ==
    /\ processed <=> (vector_db.built /\ num_chunks > 0)
    /\ ~processed => (vector_db = NoIndex /\ num_chunks = 0)
    /\ inp.kind = "query" => (processed /\ vector_db.built)

\* Clear History empties chat_history and leaves the rest of the session
ClearHistoryStep ==
    inp'.kind = "clear_history" =>
        /\ chat_history' = <<>>
        /\ vector_db' = vector_db
        /\ processed' = processed
        /\ num_chunks' = num_chunks
        /\ uploaded_files_list' = uploaded_files_list

\* C16: in every state reachable by Process Documents, Send Query, Clear History
\* and Clear All, processed is True exactly when vector_db is a built index and
\* num_chunks > 0; a query is handled only while processed is True; Clear History
\* empties only chat_history.
C16_SessionConsistency == []SessionConsistent /\ [][ClearHistoryStep]_vars

\* Clear History ran on a history of answers after a rebuild: the history is
\* empty, the index, the count and the file list are still there
C16_Witness ==
    /\ inp.kind = "clear_history"
    /\ chat_history = <<>>
    /\ processed
    /\ vector_db.built
    /\ num_chunks = Len(vector_db.chunks)
    /\ num_chunks > 1
    /\ Len(uploaded_files_list) = 2
    /\ discarded # {}

\* the direct extraction of page n returned at most 100 characters after strip
NeedsOcr(n) == ~inp.file.pages[n].raises /\ Len(Strip(inp.file.pages[n].text)) <= 100

\* the session holds an OCR reader when page n is reached: it held one before
\* the call, or an earlier page had one constructed
HeldAt(n) ==
    out.reader0 \/ \E m \in 1..(n - 1) : NeedsOcr(m) /\ inp.file.pages[m].ocr # "init"

\* the OCR of page n returns text
OcrGives(n) ==
    \/ inp.file.pages[n].ocr = "ok"
    \/ inp.file.pages[n].ocr = "init" /\ HeldAt(n)

\* what page n adds to the text of the document
Contribution(n) ==
    LET page == inp.file.pages[n]
    IN  IF page.raises THEN <<>>
        ELSE IF ~NeedsOcr(n) THEN page.text \o <<10>>
        ELSE IF OcrGives(n) THEN page.ocrText \o <<10>>
        ELSE <<>>

RECURSIVE Contributions(_)
Contributions(n) == IF n = 0 THEN <<>> ELSE Contributions(n - 1) \o Contribution(n)

\* C17: every processed page of a PDF adds to the text either its directly
\* extracted text (exactly when that has more than 100 characters after strip) or
\* its non-empty OCR text, never both; a page whose direct text is non-empty, at
\* most 100 characters, and whose OCR fails or returns nothing adds nothing.
C17_NativeXorOcr ==
    (PdfDone /\ Readable) =>
        /\ out.r.extracted = Contributions(Cardinality(Capped))
        /\ \A n \in Capped :
               LET page == inp.file.pages[n]
                   native == \E i \in 1..Len(out.r.extracted) : out.r.extracted[i] = NativeLetter(n)
                   ocr == \E i \in 1..Len(out.r.extracted) : out.r.extracted[i] = OcrLetter(n)
               IN  /\ ~(native /\ ocr)
                   /\ native <=> (~page.raises /\ Len(Strip(page.text)) > 100)
                   /\ ocr => (Count(out.r.ocrCalls, n) = 1 /\ page.ocrText # <<>>)
                   /\ (NeedsOcr(n) /\ page.text # <<>> /\ ~OcrGives(n)) => (~native /\ ~ocr)

\* page 1 has 5 characters of text and its OCR fails while rendering, page 2 has
\* none and is read by OCR: the text is the OCR text of page 2 alone
C17_Witness ==
    /\ PdfDone
    /\ Readable
    /\ inp.max_pages = 2
    /\ Len(inp.file.pages) = 2
    /\ Len(inp.file.pages[1].text) = 5
    /\ inp.file.pages[1].ocr = "render"
    /\ inp.file.pages[2].text = <<>>
    /\ out.r.ocrCalls = <<1, 2>>
    /\ out.r.extracted = inp.file.pages[2].ocrText \o <<10>>

====
